---------------------------- MODULE Spec2Model ----------------------------
(***************************************************************************)
(* Model of src/src/extract_information.py: the transcript pipeline         *)
(*   normalize_lines -> (detect_section, parse_course_from_line) per line   *)
(*   -> dedup_by_course_code -> exclusion log -> compute_cgpa               *)
(*   -> input/float of the target CGPA -> compute_goal_strategy -> report.  *)
(*                                                                         *)
(* A Python str is a sequence of one-character strings.  Decimal numbers   *)
(* are kept exactly as scaled integers: credits in tenths, grade points in *)
(* tenths, grade-point sums in hundredths, averages in thousandths.        *)
(* round() and min() are evaluated on the exact decimals; binary floating  *)
(* point can differ from them only at an exact decimal tie.                *)
(* Optional[...] is <<>> for None and <<v>> for a value.                   *)
(***************************************************************************)
EXTENDS Integers, Sequences, FiniteSets, TLC

VARIABLES
    pc,             \* the stage of main about to run
    pages,          \* the page texts extract_text_pages returned
    typed,          \* what the user enters at the target prompt
    lines, idx, section, records,
    recLine,        \* for each record, the index of the line it came from
    deduped, dedup_logs, excluded_logs, cgpa_info,
    goal_cgpa,      \* the str read at line 288
    goal, output,
    divByZero       \* a division by zero was evaluated

vars == <<pc, pages, typed, lines, idx, section, records, recLine,
          deduped, dedup_logs, excluded_logs, cgpa_info,
          goal_cgpa, goal, output, divByZero>>

---------------------------------------------------------------------------
(* Characters and generic str operations                                   *)

Digits == {"0", "1", "2", "3", "4", "5", "6", "7", "8", "9"}

Letters ==
    {"A", "B", "C", "D", "E", "F", "G", "H", "I", "J", "K", "L", "M",
     "N", "O", "P", "Q", "R", "S", "T", "U", "V", "W", "X", "Y", "Z",
     "a", "b", "c", "d", "e", "f", "g", "h", "i", "j", "k", "l", "m",
     "n", "o", "p", "q", "r", "s", "t", "u", "v", "w", "x", "y", "z"}

AlNum == Letters \cup Digits

\* \w of the re module (restricted to ASCII)
WordChars == AlNum \cup {"_"}

\* the characters str.split() and str.strip() treat as white space
Whitespace == {" ", "\t"}

NL == "\n"

None == <<>>

Some(v) == <<v>>

AllIn(s, class) == \A i \in 1..Len(s) : s[i] \in class

\* needle in hay
Contains(hay, needle) ==
    \E i \in 1..(Len(hay) - Len(needle) + 1) :
        SubSeq(hay, i, i + Len(needle) - 1) = needle

\* hay.find(needle) + 1, for a needle that occurs
FirstIndex(hay, needle) ==
    CHOOSE i \in 1..(Len(hay) - Len(needle) + 1) :
        /\ SubSeq(hay, i, i + Len(needle) - 1) = needle
        /\ \A j \in 1..(i - 1) : SubSeq(hay, j, j + Len(needle) - 1) # needle

\* s.split(sep)[0]
SplitFirst(s, sep) ==
    IF Contains(s, sep) THEN SubSeq(s, 1, FirstIndex(s, sep) - 1) ELSE s

\* the pieces of s between single separator characters, empty pieces kept
SplitAt(s, seps) ==
    LET cuts == {0} \cup {i \in 1..Len(s) : s[i] \in seps}
        Nth(k) == CHOOSE c \in cuts : Cardinality({d \in cuts : d <= c}) = k
        End(c) == IF \E d \in cuts : d > c
                  THEN (CHOOSE d \in cuts : d > c /\ \A e \in cuts : e > c => d <= e) - 1
                  ELSE Len(s)
    IN  [k \in 1..Cardinality(cuts) |-> SubSeq(s, Nth(k) + 1, End(Nth(k)))]

NonEmpty(s) == s # <<>>

\* s.split(): pieces between runs of white space, no empty piece
Split(s) == SelectSeq(SplitAt(s, Whitespace), NonEmpty)

\* sep.join(parts)
RECURSIVE Join(_, _)
Join(parts, sep) ==
    IF parts = <<>> THEN <<>>
    ELSE IF Len(parts) = 1 THEN parts[1]
    ELSE parts[1] \o sep \o Join(Tail(parts), sep)

\* s.strip()
RECURSIVE LStrip(_)
LStrip(s) ==
    IF s # <<>> /\ Head(s) \in Whitespace THEN LStrip(Tail(s)) ELSE s

RECURSIVE RStrip(_)
RStrip(s) ==
    IF s # <<>> /\ s[Len(s)] \in Whitespace
    THEN RStrip(SubSeq(s, 1, Len(s) - 1)) ELSE s

Strip(s) == RStrip(LStrip(s))

\* length of the longest run of characters of class starting at s[i]
RECURSIVE RunLen(_, _, _)
RunLen(s, i, class) ==
    IF i <= Len(s) /\ s[i] \in class THEN 1 + RunLen(s, i + 1, class) ELSE 0

StartsAt(s, p, w) ==
    /\ p + Len(w) - 1 <= Len(s)
    /\ SubSeq(s, p, p + Len(w) - 1) = w

DigitVal(c) ==
    CASE c = "0" -> 0 [] c = "1" -> 1 [] c = "2" -> 2 [] c = "3" -> 3
      [] c = "4" -> 4 [] c = "5" -> 5 [] c = "6" -> 6 [] c = "7" -> 7
      [] c = "8" -> 8 [] c = "9" -> 9

\* int(s) for a string of digits ("" gives 0)
RECURSIVE DigitsToNat(_)
DigitsToNat(s) ==
    IF s = <<>> THEN 0
    ELSE 10 * DigitsToNat(SubSeq(s, 1, Len(s) - 1)) + DigitVal(s[Len(s)])

---------------------------------------------------------------------------
(* String literals of the program                                          *)

sUNKNOWN == <<"U", "N", "K", "N", "O", "W", "N">>
sMajorDSR == <<"M", "a", "j", "o", "r", "/", "D", "S", "R">>
sCompulsory == <<"C", "o", "m", "p", "u", "l", "s", "o", "r", "y">>
sCOMPElective == <<"C", "O", "M", "P", " ", "E", "l", "e", "c", "t", "i", "v", "e">>
sFreeElective == <<"F", "r", "e", "e", " ", "e", "l", "e", "c", "t", "i", "v", "e">>
sWIE == <<"W", "I", "E">>
sGUR == <<"G", "U", "R">>
sLCR == <<"L", "C", "R">>
sServiceLearning == <<"S", "e", "r", "v", "i", "c", "e", " ", "L", "e", "a", "r", "n", "i", "n", "g">>
sLIPD == <<"L", "I", "P", "D">>
sLCRChinese == <<"L", "C", "R", "-", "C", "h", "i", "n", "e", "s", "e">>
sLCREnglish == <<"L", "C", "R", "-", "E", "n", "g", "l", "i", "s", "h">>
mServiceLearning == <<"(", "S", "e", "r", "v", "i", "c", "e", " ", "L", "e", "a", "r", "n", "i", "n", "g", ")">>
mLIPD == <<"(", "L", "I", "P", "D", ")">>
mLCRChinese == <<"(", "L", "C", "R", "-", "C", "h", "i", "n", "e", "s", "e", ")">>
mLCREnglish == <<"(", "L", "C", "R", "-", "E", "n", "g", "l", "i", "s", "h", ")">>
sDashSep == <<" ", "-", " ">>
sSpace == <<" ">>
sY == <<"Y">>
sEmpty == <<>>

\* GRADE_TO_POINT, grade points in tenths
GRADE_TO_POINT ==
    (<<"A", "+">> :> 43) @@ (<<"A">> :> 40) @@ (<<"A", "-">> :> 37) @@
    (<<"B", "+">> :> 33) @@ (<<"B">> :> 30) @@ (<<"B", "-">> :> 27) @@
    (<<"C", "+">> :> 23) @@ (<<"C">> :> 20) @@
    (<<"D", "+">> :> 13) @@ (<<"D">> :> 10) @@ (<<"F">> :> 0)

NON_FINAL_RESULTS == {<<"R">>, <<"#">>, <<"W">>}

NO_GRADE_RESULTS == {<<"R", "C">>}

---------------------------------------------------------------------------
(* The three token patterns                                                *)

\* ^[A-Za-z]{2,5}[A-Za-z0-9]{0,4}\d{3,5}[A-Za-z0-9]{0,3}$
COURSE_CODE_RE(t) ==
    \E a \in 2..5, b \in 0..4, c \in 3..5, d \in 0..3 :
        /\ a + b + c + d = Len(t)
        /\ AllIn(SubSeq(t, 1, a), Letters)
        /\ AllIn(SubSeq(t, a + 1, a + b), AlNum)
        /\ AllIn(SubSeq(t, a + b + 1, a + b + c), Digits)
        /\ AllIn(SubSeq(t, a + b + c + 1, Len(t)), AlNum)

\* ^\d+\.\d$
CREDIT_RE(t) ==
    /\ Len(t) >= 3
    /\ AllIn(SubSeq(t, 1, Len(t) - 2), Digits)
    /\ t[Len(t) - 1] = "."
    /\ t[Len(t)] \in Digits

\* ^\d{4}/[12]$
SEM_RE(t) ==
    /\ Len(t) = 6
    /\ AllIn(SubSeq(t, 1, 4), Digits)
    /\ t[5] = "/"
    /\ t[6] \in {"1", "2"}

\* int(float(t)) in tenths: the fractional digit lost
CreditTenthsTruncated(t) == 10 * DigitsToNat(SubSeq(t, 1, Len(t) - 2))

\* float(t) in tenths, for a token CREDIT_RE accepts
CreditTenths(t) ==
    10 * DigitsToNat(SubSeq(t, 1, Len(t) - 2)) + DigitVal(t[Len(t)])

---------------------------------------------------------------------------
(* normalize_lines                                                         *)

NormalizeLine(line) == Join(Split(line), sSpace)

NormalizePage(text) ==
    LET raw == SplitAt(text, {NL})
        collapsed == [i \in 1..Len(raw) |-> NormalizeLine(raw[i])]
    IN  SelectSeq(collapsed, NonEmpty)

RECURSIVE normalize_lines(_)
normalize_lines(pages_text) ==
    IF pages_text = <<>> THEN <<>>
    ELSE NormalizePage(Head(pages_text)) \o normalize_lines(Tail(pages_text))

---------------------------------------------------------------------------
(* detect_section                                                          *)

\* \b after the word character s[q]
WordBoundaryAfter(s, q) == q = Len(s) \/ s[q + 1] \notin WordChars

\* group(1) of ^\d+/\d+\s+(Compulsory|COMP Elective|Free elective|WIE)\b
\* matched at the start of line, None when the pattern does not match
SubBlockMatch(line) ==
    LET n1 == RunLen(line, 1, Digits)
        n2 == RunLen(line, n1 + 2, Digits)
        ws == RunLen(line, n1 + n2 + 2, Whitespace \cup {NL})
        p  == n1 + n2 + ws + 2
        Hit(w) == StartsAt(line, p, w) /\ WordBoundaryAfter(line, p + Len(w) - 1)
    IN  IF ~(/\ n1 >= 1
             /\ n1 + 1 <= Len(line)
             /\ line[n1 + 1] = "/"
             /\ n2 >= 1
             /\ ws >= 1)
        THEN None
        ELSE IF Hit(sCompulsory) THEN Some(sCompulsory)
        ELSE IF Hit(sCOMPElective) THEN Some(sCOMPElective)
        ELSE IF Hit(sFreeElective) THEN Some(sFreeElective)
        ELSE IF Hit(sWIE) THEN Some(sWIE)
        ELSE None

detect_section(line, current) ==
    LET m == SubBlockMatch(line)
    IN  IF Strip(line) = sMajorDSR THEN sMajorDSR
        ELSE IF m # None
        THEN IF Contains(current, sMajorDSR)
             THEN SplitFirst(current, sDashSep) \o sDashSep \o m[1]
             ELSE m[1]
        ELSE IF Strip(line) \in {sGUR, sLCR} THEN Strip(line)
        ELSE IF Contains(line, mServiceLearning) THEN sServiceLearning
        ELSE IF Contains(line, mLIPD) THEN sLIPD
        ELSE IF Contains(line, mLCRChinese) THEN sLCRChinese
        ELSE IF Contains(line, mLCREnglish) THEN sLCREnglish
        ELSE current

---------------------------------------------------------------------------
(* classify_result and parse_course_from_line                              *)

\* the table looked up by truth value: a grade worth 0.0 is not a letter grade
classify_result_falsy_zero(result) ==
    IF result = sEmpty THEN <<"unknown", None>>
    ELSE IF result \in DOMAIN GRADE_TO_POINT /\ GRADE_TO_POINT[result] # 0
    THEN <<"included", Some(GRADE_TO_POINT[result])>>
    ELSE IF result \in NON_FINAL_RESULTS THEN <<"excluded", None>>
    ELSE IF result \in NO_GRADE_RESULTS THEN <<"excluded", None>>
    ELSE <<"unknown", None>>

\* (status, grade_point)
classify_result(result) ==
    IF result = sEmpty THEN <<"unknown", None>>
    ELSE IF result \in DOMAIN GRADE_TO_POINT
    THEN <<"included", Some(GRADE_TO_POINT[result])>>
    ELSE IF result \in NON_FINAL_RESULTS THEN <<"excluded", None>>
    ELSE IF result \in NO_GRADE_RESULTS THEN <<"excluded", None>>
    ELSE <<"unknown", None>>

\* index of the first token after the code that CREDIT_RE accepts, 0 if none
CreditIdx(tokens) ==
    LET hits == {i \in 2..Len(tokens) : CREDIT_RE(tokens[i])}
    IN  IF hits = {} THEN 0
        ELSE CHOOSE i \in hits : \A j \in hits : i <= j

\* the tokens after the credits, with a final "Y" removed (lines 116-120)
StripDuplicate(rest) ==
    IF rest # <<>> /\ rest[Len(rest)] = sY
    THEN SubSeq(rest, 1, Len(rest) - 1) ELSE rest

\* then with a final YYYY/S removed (lines 123-125)
StripYearSem(rest) ==
    IF rest # <<>> /\ SEM_RE(rest[Len(rest)])
    THEN SubSeq(rest, 1, Len(rest) - 1) ELSE rest

\* the term looked for before the duplicate marker is removed
ParseRestTermFirst(rest) ==
    LET rest1 == StripYearSem(rest)
        rest2 == StripDuplicate(rest1)
    IN  [duplicate |-> rest1 # <<>> /\ rest1[Len(rest1)] = sY,
         year_sem |-> IF rest # <<>> /\ SEM_RE(rest[Len(rest)])
                      THEN rest[Len(rest)] ELSE sEmpty,
         result |-> IF rest2 # <<>> THEN rest2[1] ELSE sEmpty]

\* lines 112-129: duplicate, year_sem and result from the tokens after the
\* credits
ParseRest(rest) ==
    LET rest1 == StripDuplicate(rest)
        rest2 == StripYearSem(rest1)
    IN  [duplicate |-> rest # <<>> /\ rest[Len(rest)] = sY,
         year_sem |-> IF rest1 # <<>> /\ SEM_RE(rest1[Len(rest1)])
                      THEN rest1[Len(rest1)] ELSE sEmpty,
         result |-> IF rest2 # <<>> THEN rest2[1] ELSE sEmpty]

CourseRecord(code, title, credits, result, year_sem, duplicate, sect, status, gp) ==
    [course_code |-> code, course_title |-> title, credits |-> credits,
     result |-> result, year_sem |-> year_sem, duplicate |-> duplicate,
     section |-> sect, status |-> status, grade_point |-> gp]

\* None, or Some(CourseRecord)
parse_course_from_line(line, sect) ==
    LET tokens == Split(line)
        credit_idx == CreditIdx(tokens)
        f == ParseRest(SubSeq(tokens, credit_idx + 1, Len(tokens)))
        cls == classify_result(f.result)
    IN  IF tokens = <<>> THEN None
        ELSE IF ~COURSE_CODE_RE(tokens[1]) THEN None
        ELSE IF credit_idx = 0 THEN None
        ELSE Some(CourseRecord(tokens[1],
                               Strip(Join(SubSeq(tokens, 2, credit_idx - 1), sSpace)),
                               CreditTenths(tokens[credit_idx]),
                               f.result, f.year_sem, f.duplicate, sect,
                               cls[1], cls[2]))

---------------------------------------------------------------------------
(* dedup_by_course_code                                                    *)

\* score(r): (status priority, term present)
score(r) ==
    <<IF r.status = "included" THEN 2
      ELSE IF r.status = "excluded" THEN 1 ELSE 0,
      IF r.year_sem # sEmpty THEN 1 ELSE 0>>

\* a > b on pairs of integers, as Python compares tuples
TupleGT(a, b) == a[1] > b[1] \/ (a[1] = b[1] /\ a[2] > b[2])

\* a replacement on ties as well: score(r) >= score(chosen[key])
ReplacesOnTie(r, kept) == ~TupleGT(score(kept), score(r))

\* score(r) > score(chosen[key])
Replaces(r, kept) == TupleGT(score(r), score(kept))

\* position of key among the keys of chosen (in insertion order), 0 if absent
KeyPos(chosen, key) ==
    LET hits == {i \in 1..Len(chosen) : chosen[i].course_code = key}
    IN  IF hits = {} THEN 0 ELSE CHOOSE i \in hits : TRUE

\* the loop body with the replaced record left out of the log
DedupStepUnloggedReplace(st, r) ==
    LET pos == KeyPos(st.chosen, r.course_code)
    IN  IF pos = 0
        THEN [chosen |-> Append(st.chosen, r), logs |-> st.logs]
        ELSE IF Replaces(r, st.chosen[pos])
        THEN [chosen |-> [st.chosen EXCEPT ![pos] = r], logs |-> st.logs]
        ELSE [chosen |-> st.chosen,
              logs |-> Append(st.logs,
                  [course_code |-> r.course_code,
                   dropped_section |-> r.section,
                   kept_section |-> st.chosen[pos].section,
                   reason |-> "dedup_dropped_lower_priority_record"])]

\* one iteration of the loop over records; chosen is the dict's values in
\* key insertion order
DedupStep(st, r) ==
    LET pos == KeyPos(st.chosen, r.course_code)
    IN  IF pos = 0
        THEN [chosen |-> Append(st.chosen, r), logs |-> st.logs]
        ELSE IF Replaces(r, st.chosen[pos])
        THEN [chosen |-> [st.chosen EXCEPT ![pos] = r],
              logs |-> Append(st.logs,
                  [course_code |-> st.chosen[pos].course_code,
                   dropped_section |-> st.chosen[pos].section,
                   kept_section |-> r.section,
                   reason |-> "dedup_replaced_with_higher_priority_record"])]
        ELSE [chosen |-> st.chosen,
              logs |-> Append(st.logs,
                  [course_code |-> r.course_code,
                   dropped_section |-> r.section,
                   kept_section |-> st.chosen[pos].section,
                   reason |-> "dedup_dropped_lower_priority_record"])]

RECURSIVE DedupFold(_, _)
DedupFold(st, recs) ==
    IF recs = <<>> THEN st
    ELSE DedupFold(DedupStep(st, Head(recs)), Tail(recs))

\* [chosen |-> list(chosen.values()), logs |-> dropped_logs]
dedup_by_course_code(recs) == DedupFold([chosen |-> <<>>, logs |-> <<>>], recs)

---------------------------------------------------------------------------
(* the exclusion log of main                                               *)

ExclusionReason(r) ==
    IF r.result \in NON_FINAL_RESULTS THEN "result_non_final"
    ELSE IF r.result \in NO_GRADE_RESULTS THEN "result_no_grade"
    ELSE "missing_or_unknown_result"

NotIncluded(r) == r.status # "included"

ExcludedLogs(recs) ==
    LET ex == SelectSeq(recs, NotIncluded)
    IN  [i \in 1..Len(ex) |->
            [course_code |-> ex[i].course_code, result |-> ex[i].result,
             section |-> ex[i].section, reason |-> ExclusionReason(ex[i])]]

---------------------------------------------------------------------------
(* compute_cgpa                                                            *)

\* round(n / d) to the nearest integer, halves to even, for d > 0
RoundDiv(n, d) ==
    LET q == n \div d
        r == n % d
    IN  IF 2 * r < d THEN q
        ELSE IF 2 * r > d THEN q + 1
        ELSE IF q % 2 = 0 THEN q ELSE q + 1

Counted(r) == r.status = "included" /\ r.grade_point # None

RECURSIVE SumCredits(_)
SumCredits(recs) ==
    IF recs = <<>> THEN 0 ELSE Head(recs).credits + SumCredits(Tail(recs))

RECURSIVE SumGradePoints(_)
SumGradePoints(recs) ==
    IF recs = <<>> THEN 0
    ELSE Head(recs).credits * Head(recs).grade_point[1] + SumGradePoints(Tail(recs))

\* the guard written total_credits >= 0
CgpaDividesAtZero(total_credits) == total_credits >= 0

\* the condition under which line 213 divides by total_credits
CgpaDivides(total_credits) == total_credits > 0

\* credits in tenths, grade-point sum in hundredths, average in thousandths;
\* called only when the division it performs is defined
compute_cgpa(recs) ==
    LET included == SelectSeq(recs, Counted)
        total_credits == SumCredits(included)
        total_gp == SumGradePoints(included)
    IN  [current_cgpa |-> IF CgpaDivides(total_credits)
                          THEN Some(RoundDiv(100 * total_gp, total_credits))
                          ELSE None,
         total_credits_counted |-> total_credits,
         grade_points_sum |-> total_gp]

\* line 213 evaluates total_gp / 0
CgpaRaises(recs) ==
    LET total_credits == SumCredits(SelectSeq(recs, Counted))
    IN  CgpaDivides(total_credits) /\ total_credits = 0

---------------------------------------------------------------------------
(* compute_goal_strategy                                                   *)

\* the bands of lines 233-237, grade points in tenths
bands ==
    << <<<<"A", "+">>, 43>>, <<<<"A">>, 40>>, <<<<"A", "-">>, 37>>,
       <<<<"B", "+">>, 33>>, <<<<"B">>, 30>>, <<<<"B", "-">>, 27>>,
       <<<<"C", "+">>, 23>>, <<<<"C">>, 20>> >>

Abs(x) == IF x < 0 THEN -x ELSE x

\* abs(b[1] - required_avg) scaled by 1000 * den, for required_avg = num/den
\* thousandths
BandDistance(b, num, den) == Abs(b[2] * 100 * den - num)

\* the last band at the least distance
ClosestLast(num, den) ==
    LET i == CHOOSE i \in 1..Len(bands) :
                 /\ \A j \in 1..Len(bands) :
                        BandDistance(bands[i], num, den) <= BandDistance(bands[j], num, den)
                 /\ \A j \in (i + 1)..Len(bands) :
                        BandDistance(bands[j], num, den) > BandDistance(bands[i], num, den)
    IN  bands[i]

\* min(bands, key=...): the first band at the least distance
Closest(num, den) ==
    LET i == CHOOSE i \in 1..Len(bands) :
                 /\ \A j \in 1..Len(bands) :
                        BandDistance(bands[i], num, den) <= BandDistance(bands[j], num, den)
                 /\ \A j \in 1..(i - 1) :
                        BandDistance(bands[j], num, den) > BandDistance(bands[i], num, den)
    IN  bands[i]

\* the condition under which line 226 divides by remaining
GoalDivides(remaining) == remaining > 0

\* the grade points needed taken over the remaining credits only:
\* needed_total_gp = remaining * goal_cgpa
compute_goal_strategy_remaining(current_gp_sum, current_credits, total_required_credits, goal_avg) ==
    LET remaining == total_required_credits - current_credits
        needed_total_gp == remaining * goal_avg
        needed_from_remaining == needed_total_gp - 100 * current_gp_sum
        has_avg == GoalDivides(remaining)
    IN  [goal_cgpa |-> goal_avg,
         total_required_credits |-> total_required_credits,
         remaining_credits |-> remaining,
         required_average_gp |-> IF has_avg
                                 THEN Some(RoundDiv(needed_from_remaining, remaining))
                                 ELSE None,
         required_letter_equivalent |->
             IF has_avg
             THEN Some(<<"~">> \o Closest(needed_from_remaining, remaining)[1])
             ELSE None]

\* current_gp_sum in hundredths, credits in tenths, goal_cgpa in thousandths;
\* needed_from_remaining in 1/10000, so needed_from_remaining / remaining is
\* required_avg in thousandths
compute_goal_strategy(current_gp_sum, current_credits, total_required_credits, goal_avg) ==
    LET remaining == total_required_credits - current_credits
        needed_total_gp == total_required_credits * goal_avg
        needed_from_remaining == needed_total_gp - 100 * current_gp_sum
        has_avg == GoalDivides(remaining)
    IN  [goal_cgpa |-> goal_avg,
         total_required_credits |-> total_required_credits,
         remaining_credits |-> remaining,
         required_average_gp |-> IF has_avg
                                 THEN Some(RoundDiv(needed_from_remaining, remaining))
                                 ELSE None,
         required_letter_equivalent |->
             IF has_avg
             THEN Some(<<"~">> \o Closest(needed_from_remaining, remaining)[1])
             ELSE None]

\* line 226 evaluates needed_from_remaining / 0
GoalRaises(current_credits, total_required_credits) ==
    LET remaining == total_required_credits - current_credits
    IN  GoalDivides(remaining) /\ remaining = 0

\* total_required_credits=109.0 of line 293, in tenths
TOTAL_REQUIRED_CREDITS == 1090

---------------------------------------------------------------------------
(* float() of the target CGPA, and the order of str                        *)

RECURSIVE Pow10(_)
Pow10(k) == IF k = 0 THEN 1 ELSE 10 * Pow10(k - 1)

\* float(text) in thousandths, None where float raises ValueError.  The
\* grammar is [sign] digits [. digits] or [sign] . digits between optional
\* white space: the part of Python's float grammar without exponents,
\* underscores, inf and nan.
ParseFloat(text) ==
    LET t == Strip(text)
        signed == t # <<>> /\ t[1] \in {"+", "-"}
        body == IF signed THEN Tail(t) ELSE t
        n1 == RunLen(body, 1, Digits)
        dotted == n1 + 1 <= Len(body) /\ body[n1 + 1] = "."
        frac == IF dotted THEN SubSeq(body, n1 + 2, Len(body)) ELSE <<>>
        wellFormed == /\ AllIn(frac, Digits)
                      /\ n1 + Len(frac) >= 1
                      /\ (dotted \/ n1 = Len(body))
        magnitude == RoundDiv((DigitsToNat(SubSeq(body, 1, n1)) * Pow10(Len(frac))
                               + DigitsToNat(frac)) * 1000,
                              Pow10(Len(frac)))
    IN  IF ~wellFormed THEN None
        ELSE IF signed /\ t[1] = "-" THEN Some(-magnitude)
        ELSE Some(magnitude)

\* the characters of the model in code-point order
CodePoints ==
    <<"\t", "\n", " ", "#", "(", ")", "+", ",", "-", ".", "/", "0", "1",
       "2", "3", "4", "5", "6", "7", "8", "9", "A", "B", "C", "D", "E",
       "F", "G", "H", "I", "J", "K", "L", "M", "N", "O", "P", "Q", "R",
       "S", "T", "U", "V", "W", "X", "Y", "Z", "_", "a", "b", "c", "d",
       "e", "f", "g", "h", "i", "j", "k", "l", "m", "n", "o", "p", "q",
       "r", "s", "t", "u", "v", "w", "x", "y", "z", "~">>

Ord(c) == CHOOSE i \in 1..Len(CodePoints) : CodePoints[i] = c

\* a < b on str: at the first index where they differ, or a a proper prefix
StrLess(a, b) ==
    LET n == IF Len(a) < Len(b) THEN Len(a) ELSE Len(b)
        diff == {i \in 1..n : a[i] # b[i]}
        first == CHOOSE i \in diff : \A j \in diff : i <= j
    IN  IF diff = {} THEN Len(a) < Len(b)
        ELSE Ord(a[first]) < Ord(b[first])

\* (x.section, x.course_code) < (y.section, y.course_code)
KeyLess(x, y) ==
    \/ StrLess(x.section, y.section)
    \/ (x.section = y.section /\ StrLess(x.course_code, y.course_code))

\* insert r after the last element whose key is not greater (stable)
RECURSIVE InsertSorted(_, _)
InsertSorted(sorted, r) ==
    IF sorted = <<>> THEN <<r>>
    ELSE IF KeyLess(r, Head(sorted)) THEN <<r>> \o sorted
    ELSE <<Head(sorted)>> \o InsertSorted(Tail(sorted), r)

\* sorted(recs, key=lambda x: (x.section, x.course_code))
RECURSIVE SortedCourses(_)
SortedCourses(recs) ==
    IF recs = <<>> THEN <<>>
    ELSE InsertSorted(SortedCourses(SubSeq(recs, 1, Len(recs) - 1)), recs[Len(recs)])

---------------------------------------------------------------------------
(* Bounds of the inputs                                                    *)

\* records per transcript in the deduplication inputs
MaxDedupLines == 3

\* tokens after the credits in the parser inputs
MaxRest == 3

\* lines per transcript in the section inputs
MaxSectionLines == 3

\* courses per transcript in the aggregation inputs
MaxCourses == 2

---------------------------------------------------------------------------
(* Inputs: transcripts (page texts) and what the user types as the target  *)

SeqUpTo(S, n) == UNION {[1..k -> S] : k \in 0..n}

\* one page, lines of single-spaced tokens
Tight(tokenLines) ==
    << Join([i \in 1..Len(tokenLines) |-> Join(tokenLines[i], sSpace)], <<NL>>) >>

LooseLine(tokens) == <<" ">> \o Join(tokens, <<" ", "\t">>) \o <<" ">>

\* two pages, irregular spacing, blank lines
Loose(tokenLines) ==
    IF tokenLines = <<>> THEN << <<NL, " ", NL>> >>
    ELSE << LooseLine(tokenLines[1]) \o <<NL>>,
            Join([i \in 1..(Len(tokenLines) - 1) |-> LooseLine(tokenLines[i + 1])],
                 <<NL, NL>>) >>

DedupLines ==
    {<<<<"C", "S", "1", "0", "1">>, <<"3", ".", "0">>, <<"A">>, <<"2", "0", "2", "3", "/", "1">>>>, <<<<"C", "S", "1", "0", "1">>, <<"3", ".", "0">>, <<"A">>>>, <<<<"C", "S", "1", "0", "1">>, <<"X">>, <<"3", ".", "0">>, <<"B">>>>,
     <<<<"C", "S", "1", "0", "1">>, <<"3", ".", "0">>, <<"R">>, <<"2", "0", "2", "3", "/", "2">>>>, <<<<"C", "S", "1", "0", "1">>, <<"3", ".", "0">>, <<"W">>>>, <<<<"C", "S", "1", "0", "1">>, <<"3", ".", "0">>>>,
     <<<<"C", "S", "1", "0", "1">>, <<"3", ".", "0">>, <<"2", "0", "2", "3", "/", "1">>>>, <<<<"A", "F", "1", "0", "0", "0">>, <<"3", ".", "0">>, <<"A">>>>}

DedupDocs == {Tight(d) : d \in SeqUpTo(DedupLines, MaxDedupLines)}

RestTokens == {<<"Y">>, <<"2", "0", "2", "3", "/", "1">>, <<"2", "0", "2", "3", "/", "3">>, <<"A", "-">>, <<"R">>, <<"X", "X">>}

ResultTokens == DOMAIN GRADE_TO_POINT \cup NON_FINAL_RESULTS \cup NO_GRADE_RESULTS
                    \cup {<<"P">>}

OddLines ==
    {<<<<"A", "B", "1", "2">>, <<"I", "n", "t", "r", "o">>, <<"3", ".", "0">>, <<"A">>>>, <<<<"I", "n", "t", "r", "o">>, <<"C", "S", "1", "0", "1">>, <<"3", ".", "0">>, <<"A">>>>, <<<<"C", "S", "1", "0", "1">>, <<"I", "n", "t", "r", "o">>, <<"3">>, <<"A">>>>,
     <<<<"C", "S", "1", "0", "1">>, <<"I", "n", "t", "r", "o">>, <<"3", ".", "0", "0">>, <<"A">>>>, <<<<"C", "S", "1", "0", "1">>, <<"V", "e", "r">>, <<"2", ".", "0">>, <<"I", "n", "t", "r", "o">>, <<"3", ".", "0">>, <<"A">>>>, <<<<"C", "S", "1", "0", "1">>, <<"0", ".", "0">>, <<"A">>>>,
     <<<<"C", "S", "1", "0", "1">>, <<"1", "2", ".", "5">>, <<"B", "+">>, <<"2", "0", "2", "4", "/", "2">>>>, <<<<"C", "O", "M", "P", "1", "2", "3", "4">>, <<"I", "n", "t", "r", "o">>, <<"t", "o">>, <<"C", "o", "m", "p", "u", "t", "i", "n", "g">>, <<"3", ".", "0">>, <<"A", "-">>, <<"2", "0", "2", "3", "/", "1">>>>,
     <<<<"A", "M", "A", "1", "1", "0", "0">>, <<"C", "a", "l", "c", "u", "l", "u", "s">>, <<"3", ".", "0">>, <<"R">>>>, <<<<"C", "S", "1", "0", "1">>>>, <<<<"3", ".", "0">>, <<"A">>>>, <<<<"A", "P", "S", "S", "1", "B", "N", "0", "4">>, <<"3", ".", "0">>, <<"B">>>>}

ParseLines ==
    {<<<<"C", "S", "1", "0", "1">>, <<"I", "n", "t", "r", "o">>, <<"3", ".", "0">>>> \o r : r \in SeqUpTo(RestTokens, MaxRest)}
        \cup {<<<<"C", "S", "1", "0", "1">>, <<"3", ".", "0">>>> \o <<g>> : g \in ResultTokens}
        \cup {<<<<"C", "S", "1", "0", "1">>, <<"3", ".", "0">>>> \o <<g, <<"2", "0", "2", "3", "/", "1">>, <<"Y">>>> : g \in ResultTokens}
        \cup OddLines

ParseDocs == {Tight(<<l>>) : l \in ParseLines} \cup {<<>>}

SectionLines ==
    {<<<<"M", "a", "j", "o", "r", "/", "D", "S", "R">>>>, <<<<"3", "/", "9">>, <<"C", "o", "m", "p", "u", "l", "s", "o", "r", "y">>>>, <<<<"2", "/", "6">>, <<"W", "I", "E">>, <<"(", "L", "I", "P", "D", ")">>>>, <<<<"G", "U", "R">>>>,
     <<<<"C", "S", "1", "0", "1">>, <<"(", "L", "I", "P", "D", ")">>, <<"3", ".", "0">>, <<"A">>>>, <<<<"C", "S", "1", "0", "2">>, <<"3", ".", "0">>, <<"B">>>>}

HeaderLines ==
    {<<<<"1", "2", "/", "1", "2">>, <<"C", "O", "M", "P">>, <<"E", "l", "e", "c", "t", "i", "v", "e">>>>, <<<<"0", "/", "3">>, <<"F", "r", "e", "e">>, <<"e", "l", "e", "c", "t", "i", "v", "e">>>>, <<<<"L", "C", "R">>>>,
     <<<<"C", "l", "u", "s", "t", "e", "r">>, <<"(", "S", "e", "r", "v", "i", "c", "e">>, <<"L", "e", "a", "r", "n", "i", "n", "g", ")">>>>, <<<<"(", "L", "C", "R", "-", "C", "h", "i", "n", "e", "s", "e", ")">>>>, <<<<"x", "(", "L", "C", "R", "-", "E", "n", "g", "l", "i", "s", "h", ")", "y">>>>,
     <<<<"3", "/", "9">>, <<"W", "I", "E", "x">>>>, <<<<"3", "/", "9">>, <<"W", "I", "E", "-", "2">>>>, <<<<"/", "9">>, <<"W", "I", "E">>>>, <<<<"3", "/", "9">>, <<"C", "O", "M", "P">>>>, <<<<"G", "U", "R">>, <<"2">>>>,
     <<<<"M", "a", "j", "o", "r", "/", "D", "S", "R">>, <<"(", "L", "I", "P", "D", ")">>>>}

SectionTokenDocs ==
    SeqUpTo(SectionLines, MaxSectionLines)
        \cup {<<h, <<<<"C", "S", "1", "0", "2">>, <<"3", ".", "0">>, <<"B">>>>>> : h \in HeaderLines}
        \cup {<<<<<<"M", "a", "j", "o", "r", "/", "D", "S", "R">>>>, h, <<<<"C", "S", "1", "0", "2">>, <<"3", ".", "0">>, <<"B">>>>>> : h \in HeaderLines}
        \cup {<<<<<<"M", "a", "j", "o", "r", "/", "D", "S", "R">>>>, <<<<"3", "/", "9">>, <<"C", "o", "m", "p", "u", "l", "s", "o", "r", "y">>>>, h, <<<<"C", "S", "1", "0", "2">>, <<"3", ".", "0">>, <<"B">>>>>> : h \in HeaderLines}

SectionDocs == {Tight(d) : d \in SectionTokenDocs} \cup {Loose(d) : d \in SectionTokenDocs}

CourseCodes == <<<<"C", "S", "1", "0", "1">>, <<"C", "S", "1", "0", "2">>, <<"C", "S", "1", "0", "3">>, <<"C", "S", "1", "0", "4">>>>

CreditTokens == {<<"0", ".", "0">>, <<"4", "8", ".", "0">>, <<"4", "9", ".", "0">>, <<"6", "0", ".", "0">>}

CourseResults == {<<"A", "+">>, <<"B", "+">>, <<"R">>}

\* k courses with distinct codes
CourseDocs(k) ==
    {[i \in 1..k |-> <<CourseCodes[i], c[i], g[i]>>] :
        c \in [1..k -> CreditTokens], g \in [1..k -> CourseResults]}

GoalDocs == {Tight(d) : d \in UNION {CourseDocs(k) : k \in 0..MaxCourses}}

\* what the user types at the second prompt: a text, or the current
\* average the program reports for this transcript
Text(t) == [kind |-> "text", text |-> t]

TypesCurrent == [kind |-> "current", text |-> <<>>]

BasicTargets == {Text(<<"3", ".", "5">>), Text(<<"a", "b", "c">>)}

GoalTargets ==
    {Text(<<"3", ".", "5">>), Text(<<"4", ".", "1", "5">>), Text(<<"5", ".", "0">>), Text(<<"1", ".", "0">>), Text(<<"-", "1", ".", "0">>),
     Text(<<" ", "4", ".", "3", "0", " ">>), Text(<<"a", "b", "c">>), TypesCurrent}

---------------------------------------------------------------------------
(* What the user types                                                     *)

DigitChars == <<"0", "1", "2", "3", "4", "5", "6", "7", "8", "9">>

\* str(n) for a natural number n
RECURSIVE NatToDigits(_)
NatToDigits(n) ==
    IF n < 10 THEN <<DigitChars[n + 1]>>
    ELSE NatToDigits(n \div 10) \o <<DigitChars[(n % 10) + 1]>>

\* an average of n thousandths written with three decimals
FormatMilli(n) ==
    NatToDigits(n \div 1000) \o <<".">> \o
    <<DigitChars[((n \div 100) % 10) + 1], DigitChars[((n \div 10) % 10) + 1],
      DigitChars[(n % 10) + 1]>>

\* the text entered at the prompt of line 288
TypedText(t, info) ==
    IF t.kind = "text" THEN t.text
    ELSE IF info.current_cgpa = None THEN <<"N", "o", "n", "e">>
    ELSE FormatMilli(info.current_cgpa[1])

---------------------------------------------------------------------------
(* main                                                                    *)

InitWith(docs, targets) ==
    /\ pages \in docs
    /\ typed \in targets
    /\ pc = "normalize"
    /\ lines = <<>>
    /\ idx = 0
    /\ section = <<>>
    /\ records = <<>>
    /\ recLine = <<>>
    /\ deduped = <<>>
    /\ dedup_logs = <<>>
    /\ excluded_logs = <<>>
    /\ cgpa_info = None
    /\ goal_cgpa = None
    /\ goal = None
    /\ output = None
    /\ divByZero = FALSE

\* lines 256-259
Normalize ==
    /\ pc = "normalize"
    /\ lines' = normalize_lines(pages)
    /\ section' = sUNKNOWN
    /\ records' = <<>>
    /\ idx' = 1
    /\ pc' = "lines"
    /\ UNCHANGED <<pages, typed, recLine, deduped, dedup_logs, excluded_logs,
                   cgpa_info, goal_cgpa, goal, output, divByZero>>

\* the record made under the section in effect before its own line
SectionBeforeLine(before, detected) == before

\* the section of the record made from a line, given the section before it
\* and the section detect_section returns for it (lines 262-263)
SectionPassed(before, detected) == detected

\* one iteration of the loop of lines 261-265; recLine remembers the line
\* each record came from
ProcessLine ==
    /\ pc = "lines"
    /\ idx <= Len(lines)
    /\ LET line == lines[idx]
           detected == detect_section(line, section)
           rec == parse_course_from_line(line, SectionPassed(section, detected))
       IN  /\ section' = detected
           /\ records' = IF rec # None THEN Append(records, rec[1]) ELSE records
           /\ recLine' = IF rec # None THEN Append(recLine, idx) ELSE recLine
    /\ idx' = idx + 1
    /\ UNCHANGED <<pc, pages, typed, lines, deduped, dedup_logs, excluded_logs,
                   cgpa_info, goal_cgpa, goal, output, divByZero>>

\* line 267
Dedup ==
    /\ pc = "lines"
    /\ idx > Len(lines)
    /\ LET d == dedup_by_course_code(records)
       IN  /\ deduped' = d.chosen
           /\ dedup_logs' = d.logs
    /\ pc' = "excluded"
    /\ UNCHANGED <<pages, typed, lines, idx, section, records, recLine,
                   excluded_logs, cgpa_info, goal_cgpa, goal, output, divByZero>>

\* lines 270-282
LogExcluded ==
    /\ pc = "excluded"
    /\ excluded_logs' = ExcludedLogs(deduped)
    /\ pc' = "cgpa"
    /\ UNCHANGED <<pages, typed, lines, idx, section, records, recLine, deduped,
                   dedup_logs, cgpa_info, goal_cgpa, goal, output, divByZero>>

\* lines 284-286; a division by zero ends the run with ZeroDivisionError
ComputeCgpa ==
    /\ pc = "cgpa"
    /\ IF CgpaRaises(deduped)
       THEN /\ divByZero' = TRUE
            /\ pc' = "raised"
            /\ UNCHANGED cgpa_info
       ELSE /\ cgpa_info' = Some(compute_cgpa(deduped))
            /\ pc' = "input"
            /\ UNCHANGED divByZero
    /\ UNCHANGED <<pages, typed, lines, idx, section, records, recLine, deduped,
                   dedup_logs, excluded_logs, goal_cgpa, goal, output>>

\* line 288
InputGoal ==
    /\ pc = "input"
    /\ goal_cgpa' = Some(Strip(TypedText(typed, cgpa_info[1])))
    /\ pc' = "goal"
    /\ UNCHANGED <<pages, typed, lines, idx, section, records, recLine, deduped,
                   dedup_logs, excluded_logs, cgpa_info, goal, output, divByZero>>

\* lines 290-295, float(goal_cgpa) raising ValueError
GoalValueError ==
    /\ pc = "goal"
    /\ ParseFloat(goal_cgpa[1]) = None
    /\ pc' = "raised"
    /\ UNCHANGED <<pages, typed, lines, idx, section, records, recLine, deduped,
                   dedup_logs, excluded_logs, cgpa_info, goal_cgpa, goal, output,
                   divByZero>>

\* lines 290-295
GoalStrategy ==
    /\ pc = "goal"
    /\ ParseFloat(goal_cgpa[1]) # None
    /\ IF GoalRaises(cgpa_info[1].total_credits_counted, TOTAL_REQUIRED_CREDITS)
       THEN /\ divByZero' = TRUE
            /\ pc' = "raised"
            /\ UNCHANGED goal
       ELSE /\ goal' = Some(compute_goal_strategy(cgpa_info[1].grade_points_sum,
                                                  cgpa_info[1].total_credits_counted,
                                                  TOTAL_REQUIRED_CREDITS,
                                                  ParseFloat(goal_cgpa[1])[1]))
            /\ pc' = "write"
            /\ UNCHANGED divByZero
    /\ UNCHANGED <<pages, typed, lines, idx, section, records, recLine, deduped,
                   dedup_logs, excluded_logs, cgpa_info, goal_cgpa, output>>

\* lines 297-312
WriteOutput ==
    /\ pc = "write"
    /\ output' = Some([university |-> "PolyU", grading_scale |-> "4.3",
                       summary |-> cgpa_info[1], goal_analysis |-> goal[1],
                       courses |-> SortedCourses(deduped),
                       dedup_logs |-> dedup_logs,
                       excluded_logs |-> excluded_logs])
    /\ pc' = "done"
    /\ UNCHANGED <<pages, typed, lines, idx, section, records, recLine, deduped,
                   dedup_logs, excluded_logs, cgpa_info, goal_cgpa, goal, divByZero>>

Next ==
    \/ Normalize
    \/ ProcessLine
    \/ Dedup
    \/ LogExcluded
    \/ ComputeCgpa
    \/ InputGoal
    \/ GoalValueError
    \/ GoalStrategy
    \/ WriteOutput

InitDedup == InitWith(DedupDocs, BasicTargets)

InitParse == InitWith(ParseDocs, BasicTargets)

InitSection == InitWith(SectionDocs, BasicTargets)

InitGoal == InitWith(GoalDocs, GoalTargets)

Init == InitWith(DedupDocs \cup ParseDocs \cup SectionDocs \cup GoalDocs, GoalTargets)

\* transcripts with repeated course codes
SpecDedup == InitDedup /\ [][Next]_vars

\* one-line transcripts over the token grammar
SpecParse == InitParse /\ [][Next]_vars

\* transcripts of section headers and course lines
SpecSection == InitSection /\ [][Next]_vars

\* transcripts of graded courses, and the targets typed
SpecGoal == InitGoal /\ [][Next]_vars

Spec == Init /\ [][Next]_vars

---------------------------------------------------------------------------
(* Properties                                                              *)

\* dedup_by_course_code has returned
Deduplicated == pc \notin {"normalize", "lines"}

Range(s) == {s[i] : i \in 1..Len(s)}

\* number of elements of s whose course_code is code
CountCode(s, code) == Cardinality({i \in 1..Len(s) : s[i].course_code = code})

\* C1: after deduplication every course code of the parsed records has
\* exactly one kept record, no other code is kept or logged, and for each
\* code the kept record plus the audit-log entries carrying that code are as
\* many as the input records of that code.
C1_DedupAccountsForEveryRecord ==
    Deduplicated =>
        \A code \in {r.course_code : r \in Range(records) \cup Range(deduped)}
                        \cup {l.course_code : l \in Range(dedup_logs)} :
            /\ CountCode(records, code) >= 1
            /\ CountCode(deduped, code) = 1
            /\ CountCode(deduped, code) + CountCode(dedup_logs, code)
                   = CountCode(records, code)

\* three records over two course codes, one of them replaced by a later one
C1_Witness ==
    /\ pc = "done"
    /\ Len(records) = 3
    /\ Len(deduped) = 2
    /\ Len(dedup_logs) = 1
    /\ dedup_logs[1].reason = "dedup_replaced_with_higher_priority_record"

\* the priority of the claim as one number: status first, then term presence
Priority(r) ==
    2 * (CASE r.status = "included" -> 2 [] r.status = "excluded" -> 1 [] OTHER -> 0)
        + (IF r.year_sem = <<>> THEN 0 ELSE 1)

\* index of the earliest record of the code with the greatest priority
EarliestBest(code) ==
    LET same == {i \in 1..Len(records) : records[i].course_code = code}
        best == {i \in same : \A j \in same : Priority(records[j]) <= Priority(records[i])}
    IN  CHOOSE i \in best : \A j \in best : i <= j

Reverse(s) == [i \in 1..Len(s) |-> s[Len(s) + 1 - i]]

\* C2: the record kept for a course code is the earliest input record of
\* that code whose priority is the greatest for the code; and two records of
\* one code with different priorities give the same kept record in either
\* order of arrival.
C2_KeepsEarliestBest ==
    Deduplicated =>
        /\ \A k \in Range(deduped) : k = records[EarliestBest(k.course_code)]
        /\ (/\ Len(records) = 2
            /\ records[1].course_code = records[2].course_code
            /\ Priority(records[1]) # Priority(records[2]))
               => dedup_by_course_code(Reverse(records)).chosen = deduped

\* three records of one code: the first is beaten, the second and third tie
\* at the top and differ, and the second is kept
C2_Witness ==
    /\ pc = "done"
    /\ Len(records) = 3
    /\ Len(deduped) = 1
    /\ Priority(records[1]) < Priority(records[2])
    /\ Priority(records[2]) = Priority(records[3])
    /\ records[2] # records[3]
    /\ deduped[1] = records[2]

\* C3: every parsed record, and so every kept record, has a grade point
\* exactly when its status is "included", is "included" exactly when its
\* result is a letter grade of the table, and then carries the table's
\* grade point for that result.
C3_StatusGradePointCoupling ==
    \A r \in Range(records) \cup Range(deduped) :
        /\ (r.grade_point # None) <=> (r.status = "included")
        /\ (r.status = "included") <=> (r.result \in DOMAIN GRADE_TO_POINT)
        /\ r.status = "included" => r.grade_point = <<GRADE_TO_POINT[r.result]>>

\* a kept record with the letter grade F: included, with grade point 0.0
C3_Witness ==
    /\ pc = "done"
    /\ \E r \in Range(deduped) :
        r.result = <<"F">> /\ r.status = "included" /\ r.grade_point = <<0>>

\* the credits token of the line record i came from: the first token after
\* the code that ends in ".", digit
CreditsTokenOf(i) ==
    LET tokens == Split(lines[recLine[i]])
        k == CHOOSE k \in 2..Len(tokens) :
                 /\ CREDIT_RE(tokens[k])
                 /\ \A j \in 2..(k - 1) : ~CREDIT_RE(tokens[j])
    IN  tokens[k]

\* t is digits, ".", one digit, and tenths is its value in tenths
OneFractionalDigit(t, tenths) ==
    /\ Len(t) >= 3
    /\ t[Len(t) - 1] = "."
    /\ \A j \in (1..Len(t)) \ {Len(t) - 1} : t[j] \in Digits
    /\ tenths % 10 = DigitVal(t[Len(t)])
    /\ tenths \div 10 = DigitsToNat(SubSeq(t, 1, Len(t) - 2))

\* C7 as stated: the credits of every parsed record are a positive decimal
\* with exactly one fractional digit.
C7_CreditsPositive ==
    \A i \in 1..Len(records) :
        /\ records[i].credits > 0
        /\ OneFractionalDigit(CreditsTokenOf(i), records[i].credits)

\* C7 amended: the credits of every parsed record are a non-negative decimal
\* with exactly one fractional digit, the value of the credits token.
C7_CreditsNonNegative ==
    \A i \in 1..Len(records) :
        /\ records[i].credits >= 0
        /\ OneFractionalDigit(CreditsTokenOf(i), records[i].credits)

\* a record parsed from a line whose credits token is 0.0
C7_Witness ==
    /\ pc = "done"
    /\ \E i \in 1..Len(records) :
        records[i].credits = 0 /\ CreditsTokenOf(i) = <<"0", ".", "0">>

\* YYYY/1 or YYYY/2
IsTerm(t) ==
    /\ Len(t) = 6
    /\ \A j \in 1..4 : t[j] \in Digits
    /\ t[5] = "/"
    /\ t[6] = "1" \/ t[6] = "2"

Last(s) == s[Len(s)]

ButLast(s) == SubSeq(s, 1, Len(s) - 1)

\* the line has a first token of the course-code grammar and a credits token
IsCourseLine(line) ==
    LET tokens == Split(line)
    IN  /\ tokens # <<>>
        /\ COURSE_CODE_RE(tokens[1])
        /\ \E k \in 2..Len(tokens) : CREDIT_RE(tokens[k])

\* the tokens after the first credits token of a course line
AfterCredits(line) ==
    LET tokens == Split(line)
        k == CHOOSE k \in 2..Len(tokens) :
                 CREDIT_RE(tokens[k]) /\ \A j \in 2..(k - 1) : ~CREDIT_RE(tokens[j])
    IN  SubSeq(tokens, k + 1, Len(tokens))

\* C10: every processed course line gives a record, and with R its tokens
\* after the first credits token: duplicate iff the last token of R is "Y"
\* (then removed); year_sem is the last remaining token if it is a term
\* (then removed), else empty; result is the first token still remaining,
\* else empty, and an empty result has status "unknown".
C10_TrailingTokensInOrder ==
    /\ \A n \in 1..(idx - 1) :
           IsCourseLine(lines[n]) <=> \E i \in 1..Len(recLine) : recLine[i] = n
    /\ \A i \in 1..Len(records) :
           LET R == AfterCredits(lines[recLine[i]])
               dup == R # <<>> /\ Last(R) = <<"Y">>
               R1 == IF dup THEN ButLast(R) ELSE R
               term == R1 # <<>> /\ IsTerm(Last(R1))
               R2 == IF term THEN ButLast(R1) ELSE R1
           IN  /\ records[i].duplicate = dup
               /\ records[i].year_sem = (IF term THEN Last(R1) ELSE <<>>)
               /\ records[i].result = (IF R2 # <<>> THEN R2[1] ELSE <<>>)
               /\ records[i].result = <<>> => records[i].status = "unknown"

\* code, title, credits, result, "Y": duplicate, no term, that result
C10_Witness ==
    /\ pc = "done"
    /\ Len(records) = 1
    /\ AfterCredits(lines[recLine[1]]) = << <<"A", "-">>, <<"Y">> >>
    /\ records[1].duplicate
    /\ records[1].year_sem = <<>>
    /\ records[1].result = <<"A", "-">>

\* the lines that are exactly (up to surrounding white space) the text t
IsExactly(line, t) == Strip(line) = t

\* "<int>/<int>"
IsFraction(tok) ==
    \E k \in 2..(Len(tok) - 1) :
        /\ tok[k] = "/"
        /\ AllIn(SubSeq(tok, 1, k - 1), Digits)
        /\ AllIn(SubSeq(tok, k + 1, Len(tok)), Digits)

\* line is "<int>/<int> " followed by phrase as a leading word or words
IsHeaderOf(line, phrase) ==
    \E k \in 2..(Len(line) - Len(phrase)) :
        /\ line[k] = " "
        /\ IsFraction(SubSeq(line, 1, k - 1))
        /\ SubSeq(line, k + 1, k + Len(phrase)) = phrase
        /\ k + Len(phrase) < Len(line) => line[k + Len(phrase) + 1] \notin WordChars

SubBlockPhrases == {sCompulsory, sCOMPElective, sFreeElective, sWIE}

\* the sub-block phrase of a header line
HeaderPhrase(line) == CHOOSE p \in SubBlockPhrases : IsHeaderOf(line, p)

\* the seven section rules in priority order: rule k applies to line
RuleApplies(k, line) ==
    CASE k = 1 -> IsExactly(line, sMajorDSR)
      [] k = 2 -> \E p \in SubBlockPhrases : IsHeaderOf(line, p)
      [] k = 3 -> IsExactly(line, sGUR) \/ IsExactly(line, sLCR)
      [] k = 4 -> Contains(line, mServiceLearning)
      [] k = 5 -> Contains(line, mLIPD)
      [] k = 6 -> Contains(line, mLCRChinese)
      [] k = 7 -> Contains(line, mLCREnglish)

\* the part of s before its first " - " (all of s when it has none)
BeforeDash(s) ==
    LET at == {i \in 1..(Len(s) - 2) : s[i] = " " /\ s[i + 1] = "-" /\ s[i + 2] = " "}
    IN  IF at = {} THEN s
        ELSE SubSeq(s, 1, (CHOOSE i \in at : \A j \in at : i <= j) - 1)

\* the section rule k sets
RuleSection(k, line, current) ==
    CASE k = 1 -> sMajorDSR
      [] k = 2 -> IF Contains(current, sMajorDSR)
                  THEN BeforeDash(current) \o sDashSep \o HeaderPhrase(line)
                  ELSE HeaderPhrase(line)
      [] k = 3 -> Strip(line)
      [] k = 4 -> sServiceLearning
      [] k = 5 -> sLIPD
      [] k = 6 -> sLCRChinese
      [] k = 7 -> sLCREnglish

\* first matching rule wins, no match leaves the section unchanged
NextSection(line, current) ==
    LET hits == {k \in 1..7 : RuleApplies(k, line)}
    IN  IF hits = {} THEN current
        ELSE RuleSection(CHOOSE k \in hits : \A j \in hits : k <= j, line, current)

\* the section after lines 1..n, starting from "UNKNOWN"
RECURSIVE SectionAfter(_)
SectionAfter(n) ==
    IF n = 0 THEN sUNKNOWN ELSE NextSection(lines[n], SectionAfter(n - 1))

\* C9: the section of the record parsed from line i is the fold of the
\* seven section rules over lines 1..i, the record's own line included, and
\* the section in effect during the pass is the fold over the lines read.
C9_SectionIsFoldOfRules ==
    pc # "normalize" =>
        /\ \A i \in 1..Len(records) : records[i].section = SectionAfter(recLine[i])
        /\ section = SectionAfter(idx - 1)

\* under "Major/DSR - Compulsory" a sub-block header "3/9 WIE-2" gives
\* "Major/DSR - WIE" for the course line after it
C9_Witness ==
    /\ pc = "done"
    /\ Len(lines) = 4
    /\ SectionAfter(2) = sMajorDSR \o sDashSep \o sCompulsory
    /\ IsHeaderOf(lines[3], sWIE)
    /\ Len(records) = 1
    /\ recLine[1] = 4
    /\ records[1].section = sMajorDSR \o sDashSep \o sWIE

\* compute_cgpa has returned
Aggregated == cgpa_info # None

IsIncluded(r) == r.status = "included"

\* sum of credits (tenths) over the included records of s
RECURSIVE IncludedCredits(_)
IncludedCredits(s) ==
    IF s = <<>> THEN 0
    ELSE (IF IsIncluded(Head(s)) THEN Head(s).credits ELSE 0) + IncludedCredits(Tail(s))

\* sum of credits * grade point (hundredths) over the included records of s
RECURSIVE IncludedPoints(_)
IncludedPoints(s) ==
    IF s = <<>> THEN 0
    ELSE (IF IsIncluded(Head(s))
          THEN Head(s).credits * GRADE_TO_POINT[Head(s).result] ELSE 0)
         + IncludedPoints(Tail(s))

\* C4: the sums are taken over exactly the included records; the current
\* average is no-value when no record is included and whenever the counted
\* credits are zero, and otherwise is sum(credits * grade point) /
\* sum(credits) rounded to three decimals (within half a thousandth); no
\* division by zero is ever evaluated.
C4_AverageOverIncluded ==
    /\ ~divByZero
    /\ Aggregated =>
        LET credits == IncludedCredits(deduped)
            points == IncludedPoints(deduped)
            avg == cgpa_info[1].current_cgpa
        IN  /\ cgpa_info[1].total_credits_counted = credits
            /\ cgpa_info[1].grade_points_sum = points
            /\ (\A r \in Range(deduped) : ~IsIncluded(r)) => avg = None
            /\ (avg = None) <=> (credits = 0)
            /\ avg # None => 2 * Abs(avg[1] * credits - 100 * points) <= credits

\* an included course and an excluded one with credits of its own: only the
\* included one is counted
C4_Witness ==
    /\ pc = "done"
    /\ Len(deduped) = 2
    /\ \E r \in Range(deduped) : ~IsIncluded(r) /\ r.credits > 0
    /\ IncludedCredits(deduped) > 0
    /\ IncludedCredits(deduped) < SumCredits(deduped)
    /\ cgpa_info[1].current_cgpa # None

\* the str names a number of the documented range [0.00, 4.30]
ValidTarget(text) ==
    /\ ParseFloat(text) # None
    /\ ParseFloat(text)[1] >= 0
    /\ ParseFloat(text)[1] <= 4300

\* C5 as stated: when the target entered is not a number of [0.00, 4.30], no
\* stage of the core pipeline has run and no goal projection or report is
\* ever produced.
C5_InvalidTargetRejectedFirst ==
    (goal_cgpa # None /\ ~ValidTarget(goal_cgpa[1])) =>
        /\ pc \notin {"goal", "write", "done"}
        /\ lines = <<>> /\ records = <<>> /\ deduped = <<>> /\ cgpa_info = None
        /\ goal = None
        /\ output = None

\* the target entered is the current average the aggregator reports, some
\* credits are counted and some remain
GoalIsCurrent ==
    /\ goal # None
    /\ cgpa_info[1].current_cgpa # None
    /\ goal[1].goal_cgpa = cgpa_info[1].current_cgpa[1]
    /\ cgpa_info[1].total_credits_counted > 0
    /\ goal[1].remaining_credits > 0

\* C6 as stated: then the required average equals the current average up to
\* the rounding of the report (one thousandth).
C6_RequiredIsCurrent ==
    GoalIsCurrent =>
        /\ goal[1].required_average_gp # None
        /\ Abs(goal[1].required_average_gp[1] - cgpa_info[1].current_cgpa[1]) <= 1

\* C6 amended: then the required average differs from the current average
\* by at most 0.0005 * total_required_credits / remaining_credits, the
\* rounding of the reported average magnified by the share of credits
\* already counted.
C6_RequiredNearCurrent ==
    GoalIsCurrent =>
        /\ goal[1].required_average_gp # None
        /\ 2 * goal[1].remaining_credits
             * Abs(goal[1].required_average_gp[1] - cgpa_info[1].current_cgpa[1])
               <= goal[1].total_required_credits

\* few credits remain and the required average is more than a thousandth
\* away from the current average
C6_Witness ==
    /\ pc = "done"
    /\ GoalIsCurrent
    /\ typed = TypesCurrent
    /\ Abs(goal[1].required_average_gp[1] - cgpa_info[1].current_cgpa[1]) > 1

\* the band table of the claim, grade points in thousandths
LetterBands ==
    << <<"A+", 4300>>, <<"A", 4000>>, <<"A-", 3700>>, <<"B+", 3300>>,
       <<"B", 3000>>, <<"B-", 2700>>, <<"C+", 2300>>, <<"C", 2000>> >>

\* the label of a band name, "~" before it
Label(name) ==
    CASE name = "A+" -> <<"~", "A", "+">> [] name = "A" -> <<"~", "A">>
      [] name = "A-" -> <<"~", "A", "-">> [] name = "B+" -> <<"~", "B", "+">>
      [] name = "B" -> <<"~", "B">> [] name = "B-" -> <<"~", "B", "-">>
      [] name = "C+" -> <<"~", "C", "+">> [] name = "C" -> <<"~", "C">>

\* the unrounded required average is num / den thousandths
RequiredNum ==
    TOTAL_REQUIRED_CREDITS * goal[1].goal_cgpa - 100 * cgpa_info[1].grade_points_sum

RequiredDen == TOTAL_REQUIRED_CREDITS - cgpa_info[1].total_credits_counted

\* den * |band - required average|
Distance(k) == Abs(LetterBands[k][2] * RequiredDen - RequiredNum)

\* bands k and k + 1 are equally near and no band is nearer
TieAt(k) ==
    /\ Distance(k) = Distance(k + 1)
    /\ \A j \in 1..Len(LetterBands) : Distance(k) <= Distance(j)

\* C8: the required average and its label are no-value exactly when no
\* credits remain; otherwise the label is "~" and the band nearest to the
\* required average, the first listed of two equally near, "~A+" above 4.3
\* and "~C" below 2.0.
C8_NearestBandLabel ==
    goal # None =>
        LET avg == goal[1].required_average_gp
            label == goal[1].required_letter_equivalent
        IN  /\ goal[1].remaining_credits = RequiredDen
            /\ (avg = None) <=> (RequiredDen <= 0)
            /\ (label = None) <=> (RequiredDen <= 0)
            /\ RequiredDen > 0 =>
                /\ \E k \in 1..Len(LetterBands) :
                    /\ label = <<Label(LetterBands[k][1])>>
                    /\ \A j \in 1..Len(LetterBands) : Distance(k) <= Distance(j)
                    /\ \A j \in 1..(k - 1) : Distance(j) > Distance(k)
                /\ RequiredNum > 4300 * RequiredDen => label = <<Label("A+")>>
                /\ RequiredNum < 2000 * RequiredDen => label = <<Label("C")>>
                /\ 2 * Abs(avg[1] * RequiredDen - RequiredNum) <= RequiredDen

\* credits remain and the required average is exactly between two bands:
\* the label is the one listed first
C8_Witness ==
    /\ pc = "done"
    /\ RequiredDen > 0
    /\ \E k \in 1..(Len(LetterBands) - 1) :
        TieAt(k) /\ goal[1].required_letter_equivalent = <<Label(LetterBands[k][1])>>

=============================================================================
